---- MODULE Spec2Model ----
(***************************************************************************)
(* cron-rust: a single-threaded scheduler that fires HTTP requests at      *)
(* cron-defined times (src/src/main.rs).                                   *)
(*                                                                         *)
(* Time is an integer count of ticks, TicksPerMs ticks to the millisecond, *)
(* so that the truncation of num_milliseconds() is visible.  Occurrences   *)
(* of a cron schedule fall on whole seconds.  An Option<T> is a sequence   *)
(* of length at most one: <<>> is None and <<v>> is Some(v).               *)
(***************************************************************************)
EXTENDS Integers, Sequences, FiniteSets, TLC

VARIABLES
    secret,      \* main: secret (SECRET environment variable)
    jobs,        \* main: jobs, the Vec<Job> returned by parse_jobs
    clock,       \* the wall clock read by Utc::now(), in ticks
    jobs_spec,   \* main: jobs_spec (CRON_JOBS environment variable)
    pc,          \* position in main: "parse", "wait", "fire" or "exit"
    idx,         \* position of the iterator jobs.iter_mut() in the firing pass
    fired_at,    \* main: fired_at of the current pass
    ev,          \* what the last step did (the request sent, the line printed)
    fired,       \* history: per job, the next_fire values it was dispatched for
    last_fire,   \* history: per job, fired_at of its last dispatch (Option)
    pass_nf,     \* history: next_fire of every job when the current pass began
    pass_fired,  \* history: jobs dispatched so far in the current pass, in order
    spec_entries,\* parse_jobs: the entries that split_jobs(spec) yields
    picked,      \* history: the pieces jobs_spec was written from
    parsed_at    \* history: per job, the time read when parse_jobs pushed it

vars == <<secret, jobs_spec, jobs, clock, pc, idx, fired_at, ev, fired,
          last_fire, pass_nf, pass_fired, spec_entries, picked, parsed_at>>

\* what the loop never writes
input_vars == <<secret, jobs_spec, spec_entries, picked, parsed_at>>

----------------------------------------------------------------------------
(* Bounds of the model *)

\* ticks per millisecond: the resolution of the clock
TicksPerMs == 2
\* the clock stops the model after MaxTime seconds
MaxTime == 2
\* at most MaxJobs entries in CRON_JOBS
MaxJobs == 2
\* at most MaxHeaders user headers on a job
MaxHeaders == 2

TicksPerSec == 1000 * TicksPerMs
MaxTicks == MaxTime * TicksPerSec

Max(a, b) == IF a >= b THEN a ELSE b
Min(S) == CHOOSE x \in S : \A y \in S : x <= y
Abs(x) == IF x < 0 THEN 0 - x ELSE x

----------------------------------------------------------------------------
(* Time *)

\* main: let jitter_ms = 500i64
jitter_ms == 500

\* chrono Duration::num_milliseconds: whole milliseconds, truncated toward 0
num_milliseconds(d) ==
    IF d >= 0 THEN d \div TicksPerMs ELSE 0 - ((0 - d) \div TicksPerMs)

\* how late a sleep may end and how long a synchronous dispatch may take
Delays == { 0,
            jitter_ms * TicksPerMs - 1,
            jitter_ms * TicksPerMs,
            jitter_ms * TicksPerMs + 1,
            (jitter_ms + 1) * TicksPerMs,
            TicksPerSec }

----------------------------------------------------------------------------
(* Cron schedules.  A schedule fires every `period` seconds from `phase`   *)
(* seconds on, and, when `until` is Some(u), not after second u (a cron    *)
(* expression with a year field runs out of occurrences).                  *)

EverySecond  == [period |-> 1, phase |-> 0, until |-> <<>>]
EveryTwo     == [period |-> 2, phase |-> 0, until |-> <<>>]
OnceAtOne    == [period |-> 1, phase |-> 1, until |-> <<1>>]
Expired      == [period |-> 1, phase |-> 0, until |-> <<0>>]

IsOccurrence(s, t) ==
    /\ t >= s.phase * TicksPerSec
    /\ (t - s.phase * TicksPerSec) % (s.period * TicksPerSec) = 0
    /\ (s.until = <<>> \/ t <= s.until[1] * TicksPerSec)

\* Schedule::after(t).next(): the first occurrence strictly after t
after(s, t) ==
    LET base == s.phase * TicksPerSec
        per  == s.period * TicksPerSec
        cand == IF t < base THEN base
                ELSE base + ((t - base) \div per + 1) * per
    IN  IF s.until # <<>> /\ cand > s.until[1] * TicksPerSec
        THEN <<>> ELSE <<cand>>

\* mutant: the first occurrence at or after Utc::now()
upcoming_or_now(s, now) == after(s, now - 1)

\* Schedule::upcoming(Utc).next(): the first occurrence after Utc::now()
upcoming(s, now) == after(s, now)

----------------------------------------------------------------------------
(* Dispatcher: request construction *)

\* u8::to_ascii_lowercase over the bytes of a header name
to_ascii_lowercase(k) ==
    CASE k = "X-Cron-Secret" -> "x-cron-secret"
      [] k = "x-cron-secret" -> "x-cron-secret"
      [] k = "User-Agent"    -> "user-agent"
      [] k = "USER-AGENT"    -> "user-agent"
      [] k = "Accept"        -> "accept"

\* str::eq_ignore_ascii_case
eq_ignore_ascii_case(a, b) == to_ascii_lowercase(a) = to_ascii_lowercase(b)

\* ureq::get(url), ureq::post(url), ...: a request builder without headers
builder(method, url) == [method |-> method, url |-> url, headers |-> <<>>]

\* RequestBuilder::header(k, v): appends one header line
header(req, k, v) == [req EXCEPT !.headers = Append(@, <<k, v>>)]

\* mutant: the secret header recognised only in its canonical spelling
RECURSIVE apply_user_headers_exact_secret(_, _, _)
apply_user_headers_exact_secret(req, headers, has_ua) ==
    IF headers = <<>> THEN [req |-> req, has_ua |-> has_ua]
    ELSE LET k == Head(headers)[1]
             v == Head(headers)[2]
         IN  IF k = "X-Cron-Secret"
             THEN apply_user_headers_exact_secret(req, Tail(headers), has_ua)
             ELSE apply_user_headers_exact_secret(
                      header(req, k, v), Tail(headers),
                      has_ua \/ eq_ignore_ascii_case(k, "User-Agent"))

\* mutant: User-Agent recognised only in its canonical spelling
RECURSIVE apply_user_headers_exact_ua(_, _, _)
apply_user_headers_exact_ua(req, headers, has_ua) ==
    IF headers = <<>> THEN [req |-> req, has_ua |-> has_ua]
    ELSE LET k == Head(headers)[1]
             v == Head(headers)[2]
         IN  IF eq_ignore_ascii_case(k, "X-Cron-Secret")
             THEN apply_user_headers_exact_ua(req, Tail(headers), has_ua)
             ELSE apply_user_headers_exact_ua(
                      header(req, k, v), Tail(headers),
                      has_ua \/ k = "User-Agent")

\* the for loop of apply_headers over the user headers
RECURSIVE apply_user_headers(_, _, _)
apply_user_headers(req, headers, has_ua) ==
    IF headers = <<>> THEN [req |-> req, has_ua |-> has_ua]
    ELSE LET k == Head(headers)[1]
             v == Head(headers)[2]
         IN  IF eq_ignore_ascii_case(k, "X-Cron-Secret")
             THEN apply_user_headers(req, Tail(headers), has_ua)
             ELSE apply_user_headers(
                      header(req, k, v), Tail(headers),
                      has_ua \/ eq_ignore_ascii_case(k, "User-Agent"))

DefaultUserAgent == <<"User-Agent", "cron-runner/1.0 (Rust ureq)">>

apply_headers(req, sec, headers) ==
    LET r == apply_user_headers(header(req, "X-Cron-Secret", sec), headers, FALSE)
    IN  IF ~r.has_ua
        THEN header(r.req, DefaultUserAgent[1], DefaultUserAgent[2])
        ELSE r.req

\* the four ways main hands a request to ureq.  `payload` is the Option of
\* the bytes written after the headers, `forced` tells force_send_body().
call(req)            == [req |-> req, payload |-> <<>>,   forced |-> FALSE]
send_empty(req)      == [req |-> req, payload |-> <<"">>, forced |-> FALSE]
send(req, b)         == [req |-> req, payload |-> <<b>>,  forced |-> FALSE]
force_send(req, b)   == [req |-> req, payload |-> <<b>>,  forced |-> TRUE]

Methods == {"GET", "POST", "PUT", "PATCH", "DELETE", "HEAD", "OPTIONS"}

\* mutant: DELETE handled by the arm of the methods that always carry a body
request_delete_as_post(j, sec) ==
    LET req == apply_headers(builder(j.method, j.url), sec, j.headers)
    IN  IF j.method \in {"GET", "HEAD", "OPTIONS"}
        THEN IF j.body # <<>> THEN force_send(req, j.body[1]) ELSE call(req)
        ELSE IF j.body # <<>> THEN send(req, j.body[1]) ELSE send_empty(req)

\* the match on j.method in main: the request that goes out for job j
request(j, sec) ==
    LET req == apply_headers(builder(j.method, j.url), sec, j.headers)
    IN  CASE j.method = "GET" ->
               IF j.body # <<>> THEN force_send(req, j.body[1]) ELSE call(req)
          [] j.method = "HEAD" ->
               IF j.body # <<>> THEN force_send(req, j.body[1]) ELSE call(req)
          [] j.method = "OPTIONS" ->
               IF j.body # <<>> THEN force_send(req, j.body[1]) ELSE call(req)
          [] j.method = "DELETE" ->
               IF j.body # <<>> THEN force_send(req, j.body[1]) ELSE call(req)
          [] j.method = "POST" ->
               IF j.body # <<>> THEN send(req, j.body[1]) ELSE send_empty(req)
          [] j.method = "PUT" ->
               IF j.body # <<>> THEN send(req, j.body[1]) ELSE send_empty(req)
          [] j.method = "PATCH" ->
               IF j.body # <<>> THEN send(req, j.body[1]) ELSE send_empty(req)

----------------------------------------------------------------------------
(* Dispatcher: outcome classification *)

\* what ureq hands back: Ok(resp), Err(Error::StatusCode(code)), Err(e)
OkResults        == {[kind |-> "Ok", status |-> c, cause |-> ""] : c \in {200, 301}}
StatusResults    == {[kind |-> "StatusCode", status |-> c, cause |-> ""] :
                        c \in {400, 404, 499, 500, 503}}
TransportResults == {[kind |-> "Transport", status |-> 0, cause |-> e] :
                        e \in {"connection refused", "timeout"}}
Results == OkResults \cup StatusResults \cup TransportResults

\* the results the scheduler model draws from: one of each kind the spec names
LoopResults == {r \in Results : r.status \in {200, 503}
                                \/ r.cause = "connection refused"}

\* mutant: the client-error range closed at 500
report_500_client(ts, j, result) ==
    LET line == [ts |-> ts, verdict |-> "FAIL", method |-> j.method,
                 url |-> j.url, status |-> <<>>, category |-> <<>>,
                 error |-> <<>>]
    IN  CASE result.kind = "Ok" ->
               [line EXCEPT !.verdict = "OK", !.status = <<result.status>>]
          [] result.kind = "StatusCode" ->
               LET cat == IF result.status >= 400 /\ result.status <= 500
                          THEN "client error" ELSE "server error"
               IN  [line EXCEPT !.status = <<result.status>>, !.category = <<cat>>]
          [] OTHER ->
               [line EXCEPT !.error = <<result.cause>>]

\* the match on result in main: the line printed for one attempt
report(ts, j, result) ==
    LET line == [ts |-> ts, verdict |-> "FAIL", method |-> j.method,
                 url |-> j.url, status |-> <<>>, category |-> <<>>,
                 error |-> <<>>]
    IN  CASE result.kind = "Ok" ->
               [line EXCEPT !.verdict = "OK", !.status = <<result.status>>]
          [] result.kind = "StatusCode" ->
               LET cat == IF result.status >= 400 /\ result.status < 500
                          THEN "client error" ELSE "server error"
               IN  [line EXCEPT !.status = <<result.status>>, !.category = <<cat>>]
          [] OTHER ->
               [line EXCEPT !.error = <<result.cause>>]

----------------------------------------------------------------------------
(* Jobs *)

\* struct Job
Job(method, url, schedule, next_fire, headers, body) ==
    [method |-> method, url |-> url, schedule |-> schedule,
     next_fire |-> next_fire, headers |-> headers, body |-> body]

\* parse_jobs, from the point where an entry's fields have been parsed: an
\* entry becomes a job when its schedule has an occurrence after now
RECURSIVE parse_jobs(_, _)
parse_jobs(entries, now) ==
    IF entries = <<>> THEN <<>>
    ELSE LET e    == Head(entries)
             next == upcoming(e.schedule, now)
             rest == parse_jobs(Tail(entries), now)
         IN  IF next # <<>>
             THEN <<Job(e.method, e.url, e.schedule, next[1], e.headers, e.body)>>
                  \o rest
             ELSE rest

\* the entries CRON_JOBS is drawn from in the scheduler model
Entry(method, url, schedule, headers, body) ==
    [method |-> method, url |-> url, schedule |-> schedule,
     headers |-> headers, body |-> body]

EntryPool ==
    { Entry("GET", "https://x/a", EverySecond, <<>>, <<>>),
      Entry("POST", "https://x/b", EveryTwo, <<<<"USER-AGENT", "curl">>>>, <<"hi">>),
      Entry("DELETE", "https://x/c", OnceAtOne, <<<<"x-cron-secret", "evil">>>>, <<>>),
      Entry("HEAD", "https://x/d", Expired, <<>>, <<>>) }

SeqsUpTo(S, n) == UNION {[1..k -> S] : k \in 0..n}

Secrets == {"s3cr3t", "hunter2"}

\* the user headers a job of the request model is drawn from
HeaderPool ==
    { <<"X-Cron-Secret", "evil">>, <<"x-cron-secret", "evil">>,
      <<"User-Agent", "curl">>, <<"USER-AGENT", "curl">>,
      <<"Accept", "a">>, <<"Accept", "b">> }

----------------------------------------------------------------------------
(* Spec parser.  The text of CRON_JOBS and everything cut from it are       *)
(* sequences of one-character strings.                                      *)

\* char::is_whitespace, for the characters of the model
IsWhite(c) == c \in {" ", "\t", "\n", "\r"}

\* the positions of the characters of s that are not white space
Black(s) == {i \in 1..Len(s) : ~IsWhite(s[i])}

\* str::trim_start
trim_start(s) ==
    IF Black(s) = {} THEN <<>> ELSE SubSeq(s, Min(Black(s)), Len(s))

\* str::trim_end
trim_end(s) ==
    IF Black(s) = {} THEN <<>>
    ELSE SubSeq(s, 1, CHOOSE i \in Black(s) : \A k \in Black(s) : k <= i)

\* str::trim
trim(s) == trim_end(trim_start(s))

\* the k-th smallest element of a set of positions
Nth(P, k) == CHOOSE x \in P : Cardinality({y \in P : y < x}) = k - 1

\* the pieces of s between the separators at the positions of P, empty
\* pieces too: one more piece than there are separators
pieces_at(s, P) ==
    [k \in 1..(Cardinality(P) + 1) |->
        SubSeq(s,
               IF k = 1 THEN 1 ELSE Nth(P, k - 1) + 1,
               IF k = Cardinality(P) + 1 THEN Len(s) ELSE Nth(P, k) - 1)]

\* str::split on a set of separator characters
split(s, seps) == pieces_at(s, {i \in 1..Len(s) : s[i] \in seps})

\* the position of the first sep in s, 0 when there is none
find(s, sep) ==
    IF \E i \in 1..Len(s) : s[i] = sep
    THEN Min({i \in 1..Len(s) : s[i] = sep}) ELSE 0

\* str::splitn(n, sep): split at the first n - 1 separators only, so that
\* the last of n pieces holds the rest
splitn(s, n, sep) ==
    LET all == {i \in 1..Len(s) : s[i] = sep}
    IN  pieces_at(s, {i \in all : Cardinality({y \in all : y < i}) < n - 1})

\* str::split_once(sep): Some((before, after)) of the first sep
split_once(s, sep) ==
    IF find(s, sep) = 0 THEN <<>>
    ELSE << <<SubSeq(s, 1, find(s, sep) - 1),
              SubSeq(s, find(s, sep) + 1, Len(s))>> >>

RECURSIVE concat(_)
concat(seqs) == IF seqs = <<>> THEN <<>> ELSE Head(seqs) \o concat(Tail(seqs))

NonEmpty(s) == s # <<>>

\* split_jobs: the trimmed, non-empty pieces between ';', '\n' and '\r'
split_jobs(spec) ==
    LET pieces == split(spec, {";", "\n", "\r"})
    IN  SelectSeq([i \in 1..Len(pieces) |-> trim(pieces[i])], NonEmpty)

LowerCase == <<"a", "b", "c", "d", "e", "f", "g", "h", "i", "j", "k", "l", "m", "n", "o", "p", "q", "r", "s", "t", "u", "v", "w", "x", "y", "z">>
UpperCase == <<"A", "B", "C", "D", "E", "F", "G", "H", "I", "J", "K", "L", "M", "N", "O", "P", "Q", "R", "S", "T", "U", "V", "W", "X", "Y", "Z">>

\* mutant: the method taken as written
to_uppercase_not(s) == s

\* str::to_uppercase
to_uppercase(s) ==
    [i \in 1..Len(s) |->
        IF find(LowerCase, s[i]) # 0 THEN UpperCase[find(LowerCase, s[i])]
        ELSE s[i]]

\* parse_headers: the key:value pairs between ',', pairs without ':' or
\* with an empty key left out
parse_headers(s) ==
    IF trim(s) = <<>> THEN <<>>
    ELSE LET pairs == split(s, {","})
             kv(pair) ==
                 LET o == split_once(pair, ":")
                 IN  IF o = <<>> THEN <<>>
                     ELSE IF trim(o[1][1]) = <<>> THEN <<>>
                     ELSE << <<trim(o[1][1]), trim(o[1][2])>> >>
         IN  concat([i \in 1..Len(pairs) |-> kv(pairs[i])])

\* Schedule::from_str for the expressions of the model: Some(schedule) of
\*   * * * * * *          every second
\*   */2 * * * * *        every other second
\*   0 0 0 1 1 * 2020     a year that is over: no occurrence left
\* and None (Err) for anything else
from_str(expr) ==
    CASE expr = <<"*", " ", "*", " ", "*", " ", "*", " ", "*", " ", "*">> -> <<EverySecond>>
      [] expr = <<"*", "/", "2", " ", "*", " ", "*", " ", "*", " ", "*", " ", "*">> -> <<EveryTwo>>
      [] expr = <<"0", " ", "0", " ", "0", " ", "1", " ", "1", " ", "*", " ", "2", "0", "2", "0">> -> <<Expired>>
      [] OTHER -> <<>>

\* parse_jobs: let allowed = [...]
allowed == { <<"G", "E", "T">>, <<"P", "O", "S", "T">>, <<"P", "U", "T">>, <<"P", "A", "T", "C", "H">>, <<"D", "E", "L", "E", "T", "E">>,
             <<"H", "E", "A", "D">>, <<"O", "P", "T", "I", "O", "N", "S">> }

\* the body of the for loop of parse_jobs down to the fields of the Job:
\* Some(entry), or None where the loop says continue
parse_entry(j) ==
    LET parts == splitn(j, 5, "|")
    IN  IF Len(parts) < 3 THEN <<>>
        ELSE LET method == to_uppercase(trim(parts[1]))
             IN  IF method \notin allowed THEN <<>>
                 ELSE LET url      == trim(parts[2])
                          schedule == from_str(trim(parts[3]))
                          headers  == IF Len(parts) >= 4
                                      THEN parse_headers(parts[4]) ELSE <<>>
                          body     == IF Len(parts) = 5
                                      THEN IF parts[5] = <<>> THEN <<>>
                                           ELSE <<parts[5]>>
                                      ELSE <<>>
                      IN  IF schedule = <<>> THEN <<>>
                          ELSE <<Entry(method, url, schedule[1], headers, body)>>

----------------------------------------------------------------------------
(* Scheduler loop *)

\* the minimum of next_fire over the jobs
earliest == Min({jobs[i].next_fire : i \in 1..Len(jobs)})

\* mutant: the jitter test against the clock instead of fired_at
due_now(at, j) == Abs(num_milliseconds(clock - j.next_fire)) <= jitter_ms

\* the jitter test of the firing pass
due(at, j) == Abs(num_milliseconds(at - j.next_fire)) <= jitter_ms

\* Iterator::filter(|dt| *dt > next_fire).next() over the upcoming occurrences
RECURSIVE filter_next(_, _, _)
filter_next(s, dt, next_fire) ==
    IF dt = <<>> THEN <<>>
    ELSE IF dt[1] > next_fire THEN dt
    ELSE filter_next(s, after(s, dt[1]), next_fire)

\* mutant: the next occurrence after the one just fired, the clock ignored
reschedule_from_occurrence(j, now) ==
    LET n == after(j.schedule, j.next_fire)
    IN  IF n # <<>> THEN [j EXCEPT !.next_fire = n[1]] ELSE j

\* mutant: the update of next_fire also drops the job's body
reschedule_dropping_body(j, now) ==
    LET n == filter_next(j.schedule, upcoming(j.schedule, now), j.next_fire)
    IN  IF n # <<>> THEN [j EXCEPT !.next_fire = n[1], !.body = <<>>] ELSE j

\* the update of j.next_fire after an attempt that ended at time now
reschedule(j, now) ==
    LET n == filter_next(j.schedule, upcoming(j.schedule, now), j.next_fire)
    IN  IF n # <<>> THEN [j EXCEPT !.next_fire = n[1]] ELSE j

Event(kind) ==
    [kind |-> kind, job |-> 0, occ |-> 0, ts |-> 0, fin |-> 0,
     result |-> <<>>, sent |-> <<>>, line |-> <<>>]

Init ==
    /\ secret = "s3cr3t"
    /\ clock = 0
    /\ \E entries \in SeqsUpTo(EntryPool, MaxJobs) :
          /\ jobs_spec = entries
          /\ jobs = parse_jobs(entries, clock)
    /\ jobs # <<>>
    /\ spec_entries = <<>>
    /\ picked = <<>>
    /\ parsed_at = [i \in 1..Len(jobs) |-> clock]
    /\ pc = "wait"
    /\ idx = 0
    /\ fired_at = 0
    /\ ev = Event("start")
    /\ fired = [i \in 1..Len(jobs) |-> {}]
    /\ last_fire = [i \in 1..Len(jobs) |-> <<>>]
    /\ pass_nf = <<>>
    /\ pass_fired = <<>>

\* mutant: the top of the loop without the sleep
Wake_without_sleep(d) ==
    /\ pc = "wait"
    /\ jobs # <<>>
    /\ LET woke == clock + d
       IN  /\ woke <= MaxTicks
           /\ clock' = woke
           /\ fired_at' = woke
    /\ pc' = "fire"
    /\ idx' = 1
    /\ ev' = Event("wake")
    /\ pass_nf' = [i \in 1..Len(jobs) |-> jobs[i].next_fire]
    /\ pass_fired' = <<>>
    /\ UNCHANGED <<input_vars, jobs, fired, last_fire>>

\* top of the loop: read the clock, sleep until earliest, read fired_at.
\* thread::sleep returns no earlier than asked and the clock does not run
\* backwards, so fired_at is any time from max(now, earliest) on; d is how
\* much later.  (earliest - now fits the i64 of num_nanoseconds() for every
\* time of the model, so unwrap_or(0) is never taken.)
Wake(d) ==
    /\ pc = "wait"
    /\ jobs # <<>>
    /\ LET now == clock
           woke == Max(now, earliest) + d
       IN  /\ woke <= MaxTicks
           /\ clock' = woke
           /\ fired_at' = woke
    /\ pc' = "fire"
    /\ idx' = 1
    /\ ev' = Event("wake")
    /\ pass_nf' = [i \in 1..Len(jobs) |-> jobs[i].next_fire]
    /\ pass_fired' = <<>>
    /\ UNCHANGED <<input_vars, jobs, fired, last_fire>>

Remove(seq, i) == SubSeq(seq, 1, i - 1) \o SubSeq(seq, i + 1, Len(seq))

\* mutant: a job whose schedule has no occurrence left after the attempt is
\* taken out of jobs
Dispatch_retiring(result, d) ==
    /\ pc = "fire"
    /\ idx <= Len(jobs)
    /\ due(fired_at, jobs[idx])
    /\ clock + d <= MaxTicks
    /\ LET j    == jobs[idx]
           ts   == clock
           r    == reschedule(j, clock + d)
           gone == r.next_fire = j.next_fire
       IN  /\ clock' = clock + d
           /\ jobs' = IF gone THEN Remove(jobs, idx)
                      ELSE [jobs EXCEPT ![idx] = r]
           /\ ev' = [kind |-> "dispatch", job |-> idx, occ |-> j.next_fire,
                     ts |-> ts, fin |-> clock + d, result |-> <<result>>,
                     sent |-> <<request(j, secret)>>,
                     line |-> <<report(ts, j, result)>>]
           /\ fired' = IF gone THEN Remove(fired, idx)
                       ELSE [fired EXCEPT ![idx] = @ \cup {j.next_fire}]
           /\ last_fire' = IF gone THEN Remove(last_fire, idx)
                           ELSE [last_fire EXCEPT ![idx] = <<fired_at>>]
           /\ idx' = IF gone THEN idx ELSE idx + 1
    /\ pass_fired' = Append(pass_fired,
                             [job |-> idx, ts |-> clock, fin |-> clock + d])
    /\ UNCHANGED <<input_vars, pc, fired_at, pass_nf>>

\* mutant: an attempt that does not end in Ok leaves the loop
Dispatch_aborting(result, d) ==
    /\ pc = "fire"
    /\ idx <= Len(jobs)
    /\ due(fired_at, jobs[idx])
    /\ clock + d <= MaxTicks
    /\ LET j  == jobs[idx]
           ts == clock
       IN  /\ clock' = clock + d
           /\ jobs' = [jobs EXCEPT ![idx] = reschedule(j, clock + d)]
           /\ ev' = [kind |-> "dispatch", job |-> idx, occ |-> j.next_fire,
                     ts |-> ts, fin |-> clock + d, result |-> <<result>>,
                     sent |-> <<request(j, secret)>>,
                     line |-> <<report(ts, j, result)>>]
           /\ fired' = [fired EXCEPT ![idx] = @ \cup {j.next_fire}]
           /\ last_fire' = [last_fire EXCEPT ![idx] = <<fired_at>>]
    /\ pass_fired' = Append(pass_fired,
                             [job |-> idx, ts |-> clock, fin |-> clock + d])
    /\ idx' = idx + 1
    /\ pc' = IF result.kind = "Ok" THEN pc ELSE "exit"
    /\ UNCHANGED <<input_vars, fired_at, pass_nf>>

\* one iteration of the for loop on a job within the jitter window: the
\* attempt takes d ticks and ends with `result`
Dispatch(result, d) ==
    /\ pc = "fire"
    /\ idx <= Len(jobs)
    /\ due(fired_at, jobs[idx])
    /\ clock + d <= MaxTicks
    /\ LET j  == jobs[idx]
           ts == clock
       IN  /\ clock' = clock + d
           /\ jobs' = [jobs EXCEPT ![idx] = reschedule(j, clock + d)]
           /\ ev' = [kind |-> "dispatch", job |-> idx, occ |-> j.next_fire,
                     ts |-> ts, fin |-> clock + d, result |-> <<result>>,
                     sent |-> <<request(j, secret)>>,
                     line |-> <<report(ts, j, result)>>]
           /\ fired' = [fired EXCEPT ![idx] = @ \cup {j.next_fire}]
           /\ last_fire' = [last_fire EXCEPT ![idx] = <<fired_at>>]
    /\ pass_fired' = Append(pass_fired,
                             [job |-> idx, ts |-> clock, fin |-> clock + d])
    /\ idx' = idx + 1
    /\ UNCHANGED <<input_vars, pc, fired_at, pass_nf>>

\* one iteration of the for loop on a job outside the jitter window
Skip ==
    /\ pc = "fire"
    /\ idx <= Len(jobs)
    /\ ~due(fired_at, jobs[idx])
    /\ idx' = idx + 1
    /\ ev' = [Event("skip") EXCEPT !.job = idx]
    /\ UNCHANGED <<input_vars, jobs, clock, pc, fired_at, fired, last_fire,
                   pass_nf, pass_fired>>

\* the for loop is over: back to the top of the loop
EndPass ==
    /\ pc = "fire"
    /\ idx > Len(jobs)
    /\ pc' = "wait"
    /\ ev' = Event("endpass")
    /\ UNCHANGED <<input_vars, jobs, clock, idx, fired_at, fired, last_fire,
                   pass_nf, pass_fired>>

Next ==
    \/ \E d \in Delays : Wake(d)
    \/ \E result \in LoopResults, d \in Delays : Dispatch(result, d)
    \/ Skip
    \/ EndPass

Spec == Init /\ [][Next]_vars

----------------------------------------------------------------------------
(* The request model: one due job of any method, headers and body, at the  *)
(* moment the loop has woken on time for it; its steps are the attempts.   *)

ReqInit ==
    /\ secret \in Secrets
    /\ clock = TicksPerSec
    /\ \E m \in Methods, hs \in SeqsUpTo(HeaderPool, MaxHeaders),
          b \in {<<>>, <<"hi">>} :
          /\ jobs_spec = <<Entry(m, "https://x/a", EverySecond, hs, b)>>
          /\ jobs = parse_jobs(jobs_spec, 0)
    /\ spec_entries = <<>>
    /\ picked = <<>>
    /\ parsed_at = [i \in 1..Len(jobs) |-> 0]
    /\ pc = "fire"
    /\ idx = 1
    /\ fired_at = clock
    /\ ev = Event("wake")
    /\ fired = [i \in 1..Len(jobs) |-> {}]
    /\ last_fire = [i \in 1..Len(jobs) |-> <<>>]
    /\ pass_nf = [i \in 1..Len(jobs) |-> jobs[i].next_fire]
    /\ pass_fired = <<>>

Attempt == \E result \in Results : Dispatch(result, 0)

ReqNext == Attempt

ReqSpec == ReqInit /\ [][ReqNext]_vars

----------------------------------------------------------------------------
(* The parser model: CRON_JOBS is one or more pieces of text joined by     *)
(* separators; its steps are the iterations of the for loop of parse_jobs   *)
(* and the test that follows it in main.  Each piece comes with what a     *)
(* reader of the input format expects of it: whether it is a well-formed   *)
(* entry (at least 3 fields, an allowed method in any case, a cron         *)
(* expression that parses), whether its schedule still has an occurrence   *)
(* to come, and the method, url and 5th field its job is expected to have. *)

Piece(text, wellformed, live, method, url, field5) ==
    [text |-> text, wellformed |-> wellformed, live |-> live,
     method |-> method, url |-> url, field5 |-> field5]

TextPool ==
    { \* GET|a|* * * * * *
      Piece(<<"G", "E", "T", "|", "a", "|", "*", " ", "*", " ", "*", " ", "*", " ", "*", " ", "*">>, TRUE, TRUE,
            <<"G", "E", "T">>, <<"a">>, <<>>),
      \* post| b |*/2 * * * * *|k: v,:x,bad| hi|x
      Piece(<<"p", "o", "s", "t", "|", " ", "b", " ", "|", "*", "/", "2", " ", "*", " ", "*", " ", "*", " ", "*", " ", "*", "|", "k", ":", " ", "v", ",", ":", "x", ",", "b", "a", "d", "|", " ", "h", "i", "|", "x">>, TRUE, TRUE,
            <<"P", "O", "S", "T">>, <<"b">>, <<<<" ", "h", "i", "|", "x">>>>),
      \* PUT|b|* * * * * *||hi  (with a space after hi)
      Piece(<<"P", "U", "T", "|", "b", "|", "*", " ", "*", " ", "*", " ", "*", " ", "*", " ", "*", "|", "|", "h", "i", " ">>, TRUE, TRUE,
            <<"P", "U", "T">>, <<"b">>, <<<<"h", "i", " ">>>>),
      \* DELETE|c|* * * * * *|| (an empty 5th field)
      Piece(<<"D", "E", "L", "E", "T", "E", "|", "c", "|", "*", " ", "*", " ", "*", " ", "*", " ", "*", " ", "*", "|", "|">>, TRUE, TRUE,
            <<"D", "E", "L", "E", "T", "E">>, <<"c">>, <<>>),
      \* GET||* * * * * *  (an empty url)
      Piece(<<"G", "E", "T", "|", "|", "*", " ", "*", " ", "*", " ", "*", " ", "*", " ", "*">>, TRUE, TRUE,
            <<"G", "E", "T">>, <<>>, <<>>),
      \* HEAD|d|0 0 0 1 1 * 2020  (a schedule that is over)
      Piece(<<"H", "E", "A", "D", "|", "d", "|", "0", " ", "0", " ", "0", " ", "1", " ", "1", " ", "*", " ", "2", "0", "2", "0">>, TRUE, FALSE,
            <<"H", "E", "A", "D">>, <<"d">>, <<>>),
      \* BOGUS
      Piece(<<"B", "O", "G", "U", "S">>, FALSE, FALSE, <<>>, <<>>, <<>>),
      \* FETCH|a|* * * * * *
      Piece(<<"F", "E", "T", "C", "H", "|", "a", "|", "*", " ", "*", " ", "*", " ", "*", " ", "*", " ", "*">>, FALSE, FALSE, <<>>, <<>>, <<>>),
      \* GET|a|nope
      Piece(<<"G", "E", "T", "|", "a", "|", "n", "o", "p", "e">>, FALSE, FALSE, <<>>, <<>>, <<>>) }

\* the piece is an entry that parse_jobs does not skip
WellFormed(p) == p.wellformed

\* and its schedule has an occurrence to come
Live(p) == p.wellformed /\ p.live

\* what stands between two entries: ';' after the 1st, 3rd, ... entry and
\* an end of line after the 2nd, 4th, ...
Separators == << <<";">>, <<"\r", "\n">> >>

RECURSIVE Join(_, _)
Join(pieces, k) ==
    IF k > Len(pieces) THEN <<>>
    ELSE IF k = Len(pieces) THEN pieces[k].text
    ELSE pieces[k].text \o Separators[((k - 1) % Len(Separators)) + 1]
         \o Join(pieces, k + 1)

\* how long after the previous reading of the clock parse_jobs reads it again
ParseDelays == {0, TicksPerSec + 1}

ParseInit ==
    /\ secret = "s3cr3t"
    /\ clock = 0
    /\ \E pieces \in SeqsUpTo(TextPool, MaxJobs + 1) :
          /\ Len(SelectSeq(pieces, Live)) <= MaxJobs
          /\ picked = pieces
          /\ jobs_spec = Join(pieces, 1)
    /\ spec_entries = split_jobs(jobs_spec)
    /\ jobs_spec # <<>>
    /\ jobs = <<>>
    /\ parsed_at = <<>>
    /\ pc = "parse"
    /\ idx = 1
    /\ fired_at = 0
    /\ ev = Event("start")
    /\ fired = <<>>
    /\ last_fire = <<>>
    /\ pass_nf = <<>>
    /\ pass_fired = <<>>

\* one iteration of the for loop of parse_jobs, on the idx-th entry that
\* split_jobs yielded; upcoming(Utc) reads the clock d ticks after the last
\* reading
ParseEntry(d) ==
    /\ pc = "parse"
    /\ idx <= Len(spec_entries)
    /\ clock + d <= MaxTicks
    /\ LET now == clock + d
           new == parse_jobs(parse_entry(spec_entries[idx]), now)
       IN  /\ clock' = now
           /\ jobs' = jobs \o new
           /\ parsed_at' = parsed_at \o [i \in 1..Len(new) |-> now]
    /\ idx' = idx + 1
    /\ ev' = Event("parse")
    /\ UNCHANGED <<secret, jobs_spec, spec_entries, picked, pc, fired_at,
                   fired, last_fire, pass_nf, pass_fired>>

\* parse_jobs returned at least one job: main enters the loop
StartLoop ==
    /\ pc = "parse"
    /\ idx > Len(spec_entries)
    /\ jobs # <<>>
    /\ pc' = "wait"
    /\ idx' = 0
    /\ ev' = Event("start")
    /\ fired' = [i \in 1..Len(jobs) |-> {}]
    /\ last_fire' = [i \in 1..Len(jobs) |-> <<>>]
    /\ UNCHANGED <<input_vars, jobs, clock, fired_at, pass_nf, pass_fired>>

\* parse_jobs returned no job: "No valid jobs parsed from CRON_JOBS", exit(1)
ExitNoJobs ==
    /\ pc = "parse"
    /\ idx > Len(spec_entries)
    /\ jobs = <<>>
    /\ pc' = "exit"
    /\ ev' = Event("exit")
    /\ UNCHANGED <<input_vars, jobs, clock, idx, fired_at, fired, last_fire,
                   pass_nf, pass_fired>>

ParseNext ==
    \/ \E d \in ParseDelays : ParseEntry(d)
    \/ StartLoop
    \/ ExitNoJobs

ParseSpec == ParseInit /\ [][ParseNext]_vars

----------------------------------------------------------------------------
(* Properties of the scheduler loop *)

\* the whole seconds up to the latest occurrence a job can be rescheduled to
Seconds == {k * TicksPerSec : k \in 0..(MaxTime + 2)}

Occurrences(s) == {t \in Seconds : IsOccurrence(s, t)}

Dispatched == ev.kind = "dispatch"

Missed(i) ==
    /\ num_milliseconds(clock - jobs[i].next_fire) > jitter_ms
    /\ jobs[i].next_fire \notin fired[i]

\* C2 (as claimed): every value a job's next_fire takes is eventually
\* dispatched.  A dispatch for next_fire needs a wake within the jitter
\* window and next_fire changes only at a dispatch, so the claim requires
\* that at the top of the loop no job has an undispatched next_fire whose
\* window has already closed.
C2_EveryNextFireDispatched ==
    pc = "wait" => \A i \in 1..Len(jobs) : ~Missed(i)

\* C3 (as claimed): no job is dispatched more than once for the same
\* next_fire value.
C3_OneAttemptPerOccurrence ==
    [][\A i \in 1..Len(jobs) :
          (ev'.kind = "dispatch" /\ ev'.job = i) =>
              jobs[i].next_fire \notin fired[i]]_vars

\* C4 (as claimed): a job's next_fire is strictly greater than the last
\* time that job fired.
C4_NextFireAfterLastFire ==
    \A i \in 1..Len(jobs) :
        last_fire[i] # <<>> => jobs[i].next_fire > last_fire[i][1]

\* C5 (as claimed): whichever of the three outcomes an attempt has, the
\* job's next_fire advances past the occurrence just fired.
C5_EveryOutcomeAdvances ==
    (Dispatched /\ ev.result[1].kind \in {"Ok", "StatusCode", "Transport"}) =>
        jobs[ev.job].next_fire > ev.occ

InPass(i) == \E k \in 1..Len(pass_fired) : pass_fired[k].job = i

\* C6: two jobs whose next_fire were within 500 ms of each other when the
\* pass began are dispatched in the same pass or not at all in it, and the
\* dispatches of a pass happen in job-list order, each ending before the
\* next begins.
C6_SameWakeInListOrder ==
    pc = "fire" =>
        /\ \A a, b \in 1..Len(pass_fired) :
              a < b => /\ pass_fired[a].job < pass_fired[b].job
                       /\ pass_fired[a].fin <= pass_fired[b].ts
        /\ \A i, k \in 1..(idx - 1) :
              Abs(pass_nf[i] - pass_nf[k]) <= jitter_ms * TicksPerMs
                  => (InPass(i) <=> InPass(k))

\* C6 witness: two jobs with the same next_fire were both dispatched in one
\* pass although the first attempt outlasted the jitter window.
C6_Witness ==
    /\ pc = "fire"
    /\ Len(pass_fired) = 2
    /\ pass_nf[pass_fired[1].job] = pass_nf[pass_fired[2].job]
    /\ pass_fired[1].fin - fired_at > jitter_ms * TicksPerMs

----------------------------------------------------------------------------
(* Properties of the dispatcher *)

NamedLike(seq, name) ==
    {k \in 1..Len(seq) : eq_ignore_ascii_case(seq[k][1], name)}

NotSecret(h) == ~eq_ignore_ascii_case(h[1], "X-Cron-Secret")

\* C7: the outgoing request carries X-Cron-Secret exactly once, first and
\* with the injected secret; no user header so named (in any case) is in
\* it; the other user headers follow, in order, duplicates included.
C7_SecretOnceUserHeadersKept ==
    Dispatched =>
        LET hs    == ev.sent[1].req.headers
            users == SelectSeq(jobs[ev.job].headers, NotSecret)
        IN  /\ NamedLike(hs, "X-Cron-Secret") = {1}
            /\ hs[1] = <<"X-Cron-Secret", secret>>
            /\ Len(hs) \in {1 + Len(users), 2 + Len(users)}
            /\ SubSeq(hs, 2, 1 + Len(users)) = users

\* C7 witness: a request for a job that supplied its own x-cron-secret
\* between two Accept headers.
C7_Witness ==
    /\ Dispatched
    /\ Len(jobs[ev.job].headers) >= 2
    /\ NamedLike(jobs[ev.job].headers, "X-Cron-Secret") # {}
    /\ NamedLike(jobs[ev.job].headers, "Accept") # {}
    /\ NamedLike(ev.sent[1].req.headers, "X-Cron-Secret") = {1}

\* C8: the default User-Agent is added to the request if and only if the
\* job has no header named User-Agent in any case; with one, the request
\* carries exactly the user's.
C8_DefaultUserAgentIffNone ==
    Dispatched =>
        LET hs    == ev.sent[1].req.headers
            users == jobs[ev.job].headers
            given == NamedLike(users, "User-Agent")
        IN  IF given = {}
            THEN /\ Cardinality(NamedLike(hs, "User-Agent")) = 1
                 /\ hs[Len(hs)] = DefaultUserAgent
            ELSE /\ Cardinality(NamedLike(hs, "User-Agent")) = Cardinality(given)
                 /\ \A k \in NamedLike(hs, "User-Agent") :
                       \E u \in given : hs[k] = users[u]

\* C8 witness: a request for a job whose only User-Agent header is spelled
\* USER-AGENT went out without the default.
C8_Witness ==
    /\ Dispatched
    /\ \E u \in NamedLike(jobs[ev.job].headers, "User-Agent") :
          jobs[ev.job].headers[u][1] = "USER-AGENT"
    /\ \A k \in 1..Len(ev.sent[1].req.headers) :
          ev.sent[1].req.headers[k] # DefaultUserAgent

Bodyless == {"GET", "HEAD", "OPTIONS", "DELETE"}

\* C9: GET/HEAD/OPTIONS/DELETE carry no payload without a body and the
\* body, force-sent, with one; POST/PUT/PATCH carry the body with one and an
\* explicitly empty payload without.
C9_BodyPolicy ==
    Dispatched =>
        LET j == jobs[ev.job]
            s == ev.sent[1]
        IN  /\ s.req.method = j.method
            /\ (j.method \in Bodyless /\ j.body = <<>>) =>
                   (s.payload = <<>> /\ ~s.forced)
            /\ (j.method \in Bodyless /\ j.body # <<>>) =>
                   (s.payload = j.body /\ s.forced)
            /\ (j.method \notin Bodyless /\ j.body # <<>>) =>
                   (s.payload = j.body /\ ~s.forced)
            /\ (j.method \notin Bodyless /\ j.body = <<>>) =>
                   (s.payload = <<"">> /\ ~s.forced)

\* C9 witness: a DELETE with a body went out with the body force-sent.
C9_Witness ==
    /\ Dispatched
    /\ jobs[ev.job].method = "DELETE"
    /\ jobs[ev.job].body = <<"hi">>
    /\ ev.sent[1].forced
    /\ ev.sent[1].payload = <<"hi">>

\* C10: an error status is reported FAIL, "client error" in [400,500) and
\* "server error" otherwise; a transport error is reported FAIL with the
\* cause; only a received response is reported OK, with its status.
C10_OutcomeClassification ==
    Dispatched =>
        LET r == ev.result[1]
            l == ev.line[1]
        IN  /\ r.kind = "StatusCode" =>
                  /\ l.verdict = "FAIL"
                  /\ l.status = <<r.status>>
                  /\ l.error = <<>>
                  /\ (r.status \in 400..499) => l.category = <<"client error">>
                  /\ (r.status \notin 400..499) => l.category = <<"server error">>
            /\ r.kind = "Transport" =>
                  /\ l.verdict = "FAIL"
                  /\ l.error = <<r.cause>>
                  /\ l.status = <<>> /\ l.category = <<>>
            /\ r.kind = "Ok" =>
                  /\ l.verdict = "OK"
                  /\ l.status = <<r.status>>
                  /\ l.category = <<>> /\ l.error = <<>>
            /\ l.verdict \in {"OK", "FAIL"}
            /\ l.verdict = "OK" => r.kind = "Ok"

\* C10 witness: status 500, the first status outside [400,500), was
\* reported as a server error.
C10_Witness ==
    /\ Dispatched
    /\ ev.result[1].kind = "StatusCode"
    /\ ev.result[1].status = 500
    /\ ev.line[1].category = <<"server error">>

----------------------------------------------------------------------------
(* Properties of the parser *)

\* parse_jobs has returned
Parsed == pc # "parse" \/ idx > Len(spec_entries)

Ident(seq) == [i \in 1..Len(seq) |-> <<seq[i].method, seq[i].url>>]

\* C11 (as claimed): parse_jobs returns exactly the jobs of the well-formed
\* entries of the text, in their order, whatever malformed entries stand
\* between them.
C11_JobsOfWellFormedEntries ==
    Parsed => Ident(jobs) = Ident(SelectSeq(picked, WellFormed))

\* C11 (amended): parse_jobs returns exactly the jobs of the well-formed
\* entries whose schedule has an occurrence after the time of parsing, in
\* their order, whatever other entries stand between them.
C11_JobsOfLiveWellFormedEntries ==
    Parsed => Ident(jobs) = Ident(SelectSeq(picked, Live))

\* C11 witness: two entries became jobs although a malformed entry stood
\* between them in the text.
C11_Witness ==
    /\ Parsed
    /\ Len(jobs) = 2
    /\ Len(picked) > 2
    /\ Live(picked[1])
    /\ ~WellFormed(picked[2])

\* C12: the next_fire a job is built with is the smallest occurrence of its
\* schedule strictly after the time at which its entry was parsed.
C12_NextFireIsFirstAfterParse ==
    \A k \in 1..Len(jobs) :
        /\ jobs[k].next_fire \in Occurrences(jobs[k].schedule)
        /\ jobs[k].next_fire > parsed_at[k]
        /\ \A m \in Occurrences(jobs[k].schedule) :
              ~(parsed_at[k] < m /\ m < jobs[k].next_fire)

\* C12 witness: an entry parsed at an instant that is itself an occurrence
\* of its schedule, and one parsed between two occurrences.
C12_Witness ==
    /\ ev.kind = "parse"
    /\ Len(jobs) = 2
    /\ parsed_at[1] \in Occurrences(jobs[1].schedule)
    /\ parsed_at[2] \notin Occurrences(jobs[2].schedule)
    /\ jobs[2].next_fire > parsed_at[2]

\* C13 (as claimed): every job parse_jobs returns has a url that is not
\* empty after trimming.
C13_UrlNotEmpty ==
    \A k \in 1..Len(jobs) : trim(jobs[k].url) # <<>>

\* C14 (as claimed): the body of a job is the 5th field of its entry as
\* written, white space and further '|' included; no body when the field is
\* empty or missing.
C14_BodyVerbatim ==
    Parsed =>
        LET live == SelectSeq(picked, Live)
        IN  Len(jobs) = Len(live) =>
                \A k \in 1..Len(jobs) : jobs[k].body = live[k].field5

----------------------------------------------------------------------------
(* Properties of the loop as a whole *)

\* job i was dispatched for its current next_fire and its schedule had no
\* later occurrence to move it to
Exhausted(i) ==
    /\ jobs[i].next_fire \in fired[i]
    /\ after(jobs[i].schedule, jobs[i].next_fire) = <<>>

LiveNextFires == {jobs[k].next_fire : k \in {i \in 1..Len(jobs) : ~Exhausted(i)}}

\* C15 (as claimed): a job whose schedule is exhausted is retired: no later
\* step dispatches it, and the loop wakes no earlier than the smallest
\* next_fire of the jobs that are not exhausted.
C15_ExhaustedJobRetired ==
    [][/\ \A i \in 1..Len(jobs) :
             Exhausted(i) => ~(ev'.kind = "dispatch" /\ ev'.job = i)
       /\ (ev'.kind = "wake" /\ LiveNextFires # {}) =>
             fired_at' >= Min(LiveNextFires)]_vars

\* C16: a step of the loop changes no job but the one it dispatches, of that
\* job nothing but next_fire, and never the number of jobs; at the end of a
\* pass every job that was not dispatched in it has the next_fire it had
\* when the pass began.
C16_OnlyNextFireOfDispatchedJob ==
    [][/\ Len(jobs') = Len(jobs)
       /\ \A i \in 1..Len(jobs) :
             jobs'[i] # jobs[i] =>
                 /\ ev'.kind = "dispatch" /\ ev'.job = i
                 /\ [jobs'[i] EXCEPT !.next_fire = jobs[i].next_fire] = jobs[i]
       /\ ev'.kind = "endpass" =>
             \A i \in 1..Len(jobs) :
                 ~InPass(i) => jobs[i].next_fire = pass_nf[i]]_vars

\* C16 witness: a pass that moved the next_fire of a job it dispatched, the
\* job has a body, and left another job as it was.
C16_Witness ==
    /\ ev.kind = "endpass"
    /\ \E i, k \in 1..Len(jobs) :
          /\ InPass(i)
          /\ jobs[i].body # <<>>
          /\ jobs[i].next_fire # pass_nf[i]
          /\ ~InPass(k)
          /\ jobs[k].next_fire = pass_nf[k]

\* a job without the one field the loop writes
Member(j) == [j EXCEPT !.next_fire = 0]

\* C17: in every state of the loop jobs holds the jobs parse_jobs returned
\* at startup, in the same order, and is not empty.
C17_JobSetFixedAndNotEmpty ==
    /\ jobs # <<>>
    /\ [i \in 1..Len(jobs) |-> Member(jobs[i])]
           = [i \in 1..Len(parse_jobs(jobs_spec, 0)) |->
                 Member(parse_jobs(jobs_spec, 0)[i])]

\* C17 witness: a job was dispatched, its schedule had no occurrence left,
\* and it is still in jobs.
C17_Witness ==
    /\ Dispatched
    /\ Exhausted(ev.job)
    /\ Len(jobs) = Len(parse_jobs(jobs_spec, 0))

\* the model stops at MaxTicks: the sleep of the next Wake would end later
Horizon == pc = "wait" /\ Max(clock, earliest) > MaxTicks

\* C18: the loop is always at its top or in a firing pass, a next step is
\* always enabled, an attempt leaves the loop in its firing pass whatever
\* its outcome, and the end of a pass leads back to the top.
C18_NoTerminalState ==
    /\ pc \in {"wait", "fire"}
    /\ (ENABLED Next) \/ Horizon
    /\ Dispatched => pc = "fire"
    /\ ev.kind = "endpass" => pc = "wait"

\* C18 witness: an attempt failed in transport and the loop goes on with
\* the rest of the pass.
C18_Witness ==
    /\ Dispatched
    /\ ev.result[1].kind = "Transport"
    /\ pc = "fire"
    /\ ENABLED Next

\* C19 (as claimed): a pass begins no earlier than the earliest next_fire
\* computed at the top of that iteration, and no job is dispatched more
\* than 500 ms before its next_fire.
C19_NotBeforeJitterWindow ==
    /\ pc = "fire" => fired_at >= Min({pass_nf[i] : i \in 1..Len(pass_nf)})
    /\ Dispatched => ev.occ - fired_at <= jitter_ms * TicksPerMs

\* C19 (amended): a pass begins no earlier than the earliest next_fire
\* computed at the top of that iteration, and no job is dispatched 501 ms
\* or more before its next_fire.
C19_NotBeforeJitterWindowInWholeMs ==
    /\ pc = "fire" => fired_at >= Min({pass_nf[i] : i \in 1..Len(pass_nf)})
    /\ Dispatched => ev.occ - fired_at < (jitter_ms + 1) * TicksPerMs

\* C19 witness: a job dispatched more than 500 ms before its next_fire, in
\* a pass that began after the earliest next_fire.
C19_Witness ==
    /\ Dispatched
    /\ ev.occ - fired_at > jitter_ms * TicksPerMs
    /\ fired_at > Min({pass_nf[i] : i \in 1..Len(pass_nf)})

\* C20 (as claimed): every pass dispatches at least one job and leaves the
\* smallest next_fire greater than it was when the pass began.
C20_EveryPassDispatches ==
    ev.kind = "endpass" =>
        /\ pass_fired # <<>>
        /\ earliest > Min({pass_nf[i] : i \in 1..Len(pass_nf)})

====
